---- MODULE Spec2Model ----
(***************************************************************************)
(* The read_file tool of codex-acp (src/src/read_file_tool.rs): the        *)
(* handler RemoteReadFileHandler::handle, the fetch through the ACP        *)
(* client, slice mode and the indentation-mode scan of read_block, two     *)
(* invocations in progress at once, and ensure_read_file_tool_enabled.     *)
(*                                                                         *)
(* Text is a sequence of one-character strings.  A file is the sequence of *)
(* its raw lines; its text is those lines, each ended by "\n".             *)
(***************************************************************************)
EXTENDS Integers, Sequences, FiniteSets, TLC

\* ------------------------------------------------------------------ bounds
\* Longest file, in lines.
MaxLen == 3
\* Longest supported-tools list before the first call, and the most calls of
\* ensure_read_file_tool_enabled.
MaxTools == 3
MaxCalls == 3

\* ------------------------------------------------------- program constants
MAX_LINE_LENGTH == 500
TAB_WIDTH == 4
COMMENT_PREFIXES == << <<"#">>, <<"/", "/">>, <<"-", "-">> >>
\* defaults::limit()
DEFAULT_LIMIT == 2000
\* defaults::offset()
DEFAULT_OFFSET == 1
\* defaults::max_levels()
DEFAULT_MAX_LEVELS == 0
\* The largest value of the line and limit fields of ReadTextFileRequest.
\* They are u32 in the source and usize values that do not fit are sent as
\* absent; TLC's integers are 32-bit signed, so the field is modelled 16 bits
\* wide.  Every other number of the model is far below it.
FIELD_MAX == 65535

\* ------------------------------------------------------------------ Option
None == [some |-> FALSE, v |-> 0]
Some(x) == [some |-> TRUE, v |-> x]
OptionOf(S) == {None} \cup {Some(x) : x \in S}
unwrap_or(o, d) == IF o.some THEN o.v ELSE d

Min(a, b) == IF a <= b THEN a ELSE b
Max(a, b) == IF a >= b THEN a ELSE b

\* ------------------------------------------------------------ text helpers
\* char::is_whitespace, on the characters of the model
is_whitespace(c) == c \in {" ", "\t", "\n", "\r"}

RECURSIVE trim_start(_)
trim_start(s) ==
    IF s = <<>> THEN <<>>
    ELSE IF is_whitespace(Head(s)) THEN trim_start(Tail(s)) ELSE s

RECURSIVE trim_end(_)
trim_end(s) ==
    IF s = <<>> THEN <<>>
    ELSE IF is_whitespace(s[Len(s)]) THEN trim_end(SubSeq(s, 1, Len(s) - 1)) ELSE s

\* str::trim
trim(s) == trim_end(trim_start(s))

\* str::starts_with
starts_with(s, p) == Len(s) >= Len(p) /\ SubSeq(s, 1, Len(p)) = p

\* str::trim_end_matches('\r')
RECURSIVE trim_end_cr(_)
trim_end_cr(s) ==
    IF s # <<>> /\ s[Len(s)] = "\r" THEN trim_end_cr(SubSeq(s, 1, Len(s) - 1)) ELSE s

\* str::lines: split at "\n", a final empty piece is no line, and the "\r" of
\* a "\r\n" ending goes with the ending.
RECURSIVE lines_from(_, _)
lines_from(s, cur) ==
    IF s = <<>> THEN (IF cur = <<>> THEN <<>> ELSE <<cur>>)
    ELSE IF Head(s) = "\n"
         THEN <<(IF cur # <<>> /\ cur[Len(cur)] = "\r"
                 THEN SubSeq(cur, 1, Len(cur) - 1) ELSE cur)>>
              \o lines_from(Tail(s), <<>>)
         ELSE lines_from(Tail(s), Append(cur, Head(s)))

str_lines(content) == lines_from(content, <<>>)

\* format_line: the text cut to MAX_LINE_LENGTH bytes (the model's characters
\* are one byte each, so every index is a character boundary).
format_line(bytes) ==
    IF Len(bytes) > MAX_LINE_LENGTH THEN SubSeq(bytes, 1, MAX_LINE_LENGTH) ELSE bytes

\* split_lines
split_lines(content) ==
    LET ls == str_lines(content) IN [k \in 1..Len(ls) |-> trim_end_cr(ls[k])]

\* measure_indent: the width of the leading run of spaces and tabs.
RECURSIVE measure_indent(_)
measure_indent(line) ==
    IF line = <<>> THEN 0
    ELSE IF Head(line) = "\t" THEN TAB_WIDTH + measure_indent(Tail(line))
    ELSE IF Head(line) = " " THEN 1 + measure_indent(Tail(line))
    ELSE 0

\* LineRecord::trimmed, is_blank, is_comment
trimmed(rec) == trim_start(rec.raw)
\* mutant: only a line without any character is blank
is_blank_when_empty(rec) == rec.raw = <<>>

is_blank(rec) == trimmed(rec) = <<>>
is_comment(rec) ==
    \E p \in 1..Len(COMMENT_PREFIXES) : starts_with(trim(rec.raw), COMMENT_PREFIXES[p])

\* collect_file_lines
collect_file_lines(content) ==
    LET ls == str_lines(content) IN
    [idx \in 1..Len(ls) |->
        LET raw == trim_end_cr(ls[idx]) IN
        [number |-> idx, raw |-> raw, display |-> format_line(raw),
         indent |-> measure_indent(raw)]]

\* compute_effective_indents
RECURSIVE effective_from(_, _, _)
effective_from(records, k, previous_indent) ==
    IF k > Len(records) THEN <<>>
    ELSE IF is_blank(records[k])
         THEN <<previous_indent>> \o effective_from(records, k + 1, previous_indent)
         ELSE <<records[k].indent>> \o effective_from(records, k + 1, records[k].indent)

compute_effective_indents(records) == effective_from(records, 1, 0)


\* ------------------------------------------------------------------- state
VARIABLES
    file,                   \* the file behind file_path: its raw lines
    acp_client,             \* ACP_CLIENT: "unset" or "set"
    args,                   \* the invocation: payload and ReadFileArgs
    pc,                     \* where the invocation is
    request,                \* the ReadTextFileRequest sent, line and limit
    content,                \* the text the fetch returned
    collected,              \* read_block: the LineRecords of the file
    effective_indents,      \* read_block: one effective indent per record
    min_indent,             \* read_block: the indentation threshold
    final_limit,            \* read_block: the line budget
    i, j,                   \* read_block: the upward and the downward cursor
    i_counter_min_indent,
    j_counter_min_indent,
    out,                    \* read_block: the window, indices into collected
    progressed,
    result,                 \* Result<Vec<String>, FunctionCallError>
    fetches,                \* history: read_text_file requests issued
    steps,                  \* history: cursor steps of the scan executed
    peak,                   \* history: the longest the window has been
    threshold_stops,        \* history: cursors deactivated below min_indent
    round_start,            \* history: the window's length as the round began
    after_trim,             \* history: the window as trim_empty_lines left it
    outcome,                \* history: how the call of the client ended
    experimental_supported_tools,   \* config.model_family's list of tools
    ensure_calls,           \* history: calls of ensure_read_file_tool_enabled
    tools_at_start,         \* history: the list before the first call
    other,                  \* the locals of the invocation that is not running
    running,                \* which of the two invocations is running: 1 or 2
    overlapped              \* history: one halted while both were under way

config_vars == <<experimental_supported_tools, ensure_calls, tools_at_start>>

\* What no step of an invocation writes: the configuration and the locals
\* of the other invocation.
idle_vars == <<config_vars, other, running, overlapped>>

vars == <<idle_vars, file, acp_client, args, pc, request, content, collected,
          effective_indents, min_indent, final_limit, i, j,
          i_counter_min_indent, j_counter_min_indent, out, progressed,
          result, fetches, steps, peak, threshold_stops, round_start, after_trim, outcome>>

block_vars == <<collected, effective_indents, min_indent, final_limit>>

scan_vars == <<block_vars, i, j, i_counter_min_indent, j_counter_min_indent,
               out, progressed, steps, peak, threshold_stops, round_start,
               after_trim>>

\* ------------------------------------------------------------ input domains
\* The raw lines a file is made of: empty, code and a comment at indent 0,
\* code at indent 4 (one tab) and at indent 8.
LineChoices ==
    { <<>>, <<"x">>, <<"#">>, <<"\t", "x">>, <<"\t", "\t", "x">> }

Files == UNION { [1..n -> LineChoices] : n \in 0..MaxLen }

\* impl Default for IndentationArgs
default_indentation ==
    [anchor_line |-> None, max_levels |-> DEFAULT_MAX_LEVELS,
     include_siblings |-> FALSE, include_header |-> TRUE, max_lines |-> None]

\* ReadFileArgs.indentation absent
NoIndentation == [some |-> FALSE, v |-> default_indentation]

\* ------------------------------------------------- results and error values
Pending == [kind |-> "Pending", msg |-> "", lines |-> <<>>]
Ok(ls) == [kind |-> "Ok", msg |-> "", lines |-> ls]
RespondToModel(m) == [kind |-> "RespondToModel", msg |-> m, lines |-> <<>>]
Fatal(m) == [kind |-> "Fatal", msg |-> m, lines |-> <<>>]
\* the panic of an index that is out of bounds
Panic(m) == [kind |-> "Panic", msg |-> m, lines |-> <<>>]

\* format!("L{}: {}", number, text)
entry(number, text) == [number |-> number, text |-> text]

\* ------------------------------------------------ the file-fetch collaborator
RECURSIVE file_text(_)
file_text(ls) == IF ls = <<>> THEN <<>> ELSE Head(ls) \o <<"\n">> \o file_text(Tail(ls))

\* Client::read_text_file: the lines of the file from `line` (1-based, the
\* first line when absent), at most `limit` of them when the client honours
\* the limit it was sent.
read_text_file(req, honours_limit) ==
    LET first == IF req.line.some THEN req.line.v ELSE 1
        last  == IF req.limit.some /\ honours_limit
                 THEN Min(Len(file), first + req.limit.v - 1)
                 ELSE Len(file)
    IN file_text(SubSeq(file, first, last))

\* usize -> u32 by try_into().ok()
try_into_field(value) == IF value <= FIELD_MAX THEN Some(value) ELSE None

and_then_try_into(o) == IF o.some THEN try_into_field(o.v) ELSE None

\* ------------------------------------------------------ read_block's locals
options == unwrap_or(args.indentation, default_indentation)
anchor_line == unwrap_or(options.anchor_line, args.offset)
anchor_index == anchor_line - 1

\* mutant: the guard ignores max_lines
guard_limit_of_no_cap(max_lines, limit) == limit

guard_limit_of(max_lines, limit) == unwrap_or(max_lines, limit)
guard_limit == guard_limit_of(options.max_lines, args.limit)

saturating_sub(a, b) == IF a >= b THEN a - b ELSE 0

\* mutant: one level too few is subtracted
min_indent_of_level_short(max_levels, indent) ==
    IF max_levels = 0 THEN 0 ELSE saturating_sub(indent, (max_levels - 1) * TAB_WIDTH)

min_indent_of(max_levels, indent) ==
    IF max_levels = 0 THEN 0 ELSE saturating_sub(indent, max_levels * TAB_WIDTH)

\* mutant: the budget leaves max_lines to the truncation
final_limit_of_uncapped(limit, guard, len) == Min(limit, len)

final_limit_of(limit, guard, len) == Min(Min(limit, guard), len)

\* record of the window's k-th entry
rec_at(idx) == collected[idx + 1]

render(window) ==
    [k \in 1..Len(window) |-> entry(rec_at(window[k]).number, rec_at(window[k]).display)]


\* ----------------------------------------------------------------- actions
finish(r) == /\ result' = r
             /\ pc' = "done"

\* RemoteReadFileHandler::handle up to the call of read_slice or
\* read_indent_block, both of which start with fetch_text.
handle ==
    /\ pc = "handle"
    /\ UNCHANGED <<idle_vars, file, acp_client, args, request, content, scan_vars, fetches, outcome>>
    /\ IF args.payload = "Other"
       THEN finish(RespondToModel("read_file handler received unsupported payload"))
       ELSE IF args.payload = "Malformed"
       THEN finish(RespondToModel("failed to parse function arguments"))
       ELSE IF args.offset = 0
       THEN finish(RespondToModel("offset must be a 1-indexed line number"))
       ELSE IF args.limit = 0
       THEN finish(RespondToModel("limit must be greater than zero"))
       ELSE IF ~args.path_absolute
       THEN finish(RespondToModel("file_path must be an absolute path"))
       ELSE /\ pc' = "fetch_text"
            /\ result' = result

\* fetch_text and call_client up to the spawned read_text_file: read_slice
\* asks for (offset, limit), read_indent_block for the whole file.
fetch_text ==
    /\ pc = "fetch_text"
    /\ UNCHANGED <<idle_vars, file, acp_client, args, content, scan_vars>>
    /\ request' = IF args.mode = "Slice"
                  THEN [line  |-> and_then_try_into(Some(args.offset)),
                        limit |-> and_then_try_into(Some(args.limit))]
                  ELSE [line |-> and_then_try_into(None),
                        limit |-> and_then_try_into(None)]
    /\ IF acp_client = "unset"
       THEN /\ finish(Fatal("ACP client not initialized"))
            /\ fetches' = fetches
            /\ outcome' = "not_initialized"
       ELSE /\ pc' = "read_text_file"
            /\ result' = result
            /\ fetches' = fetches + 1
            /\ outcome' = outcome

\* What call_client makes of the spawned call's outcome: a JoinError of the
\* blocking task, an Err of the client, or its response.
\* mutant: an Err of the client is mapped to Fatal as well
call_client_result_all_fatal(how, text) ==
    IF how = "join_error" THEN Fatal("ACP client call failed")
    ELSE IF how = "client_error" THEN Fatal("ACP client error")
    ELSE Ok(text)

call_client_result(how, text) ==
    IF how = "join_error" THEN Fatal("ACP client call failed")
    ELSE IF how = "client_error" THEN RespondToModel("ACP client error")
    ELSE Ok(text)

\* mutant: a failed fetch is tried again
after_fetch_error_retry == "fetch_text"

\* Where the invocation goes when fetch_text returns an error: the `?` of
\* its caller (lines 214 and 235) returns it from the handler.
after_fetch_error == "done"

\* The awaited call returns; fetch_text hands the content to its caller.
read_text_file_returns ==
    /\ pc = "read_text_file"
    /\ \E how \in {"response", "client_error", "join_error"}, honours_limit \in BOOLEAN :
          \* a client that ignores the limit differs only when one was sent
          /\ (~honours_limit) => (how = "response" /\ request.limit.some)
          /\ outcome' = how
          /\ LET r == call_client_result(how, read_text_file(request, honours_limit)) IN
             IF r.kind = "Ok"
             THEN /\ content' = r.lines
                  /\ pc' = IF args.mode = "Slice" THEN "read_slice" ELSE "read_indent_block"
                  /\ result' = result
             ELSE /\ content' = content
                  /\ result' = r
                  /\ pc' = after_fetch_error
    /\ UNCHANGED <<idle_vars, file, acp_client, args, request, scan_vars, fetches>>

\* mutant: the text is taken from the other invocation's buffer
text_of_other == other.content

\* `content` of read_slice (line 214) and of read_indent_block (line 235):
\* the text fetch_text returned to this invocation
text_read == content

\* read_slice after the fetch
read_slice ==
    /\ pc = "read_slice"
    /\ LET lines == split_lines(text_read) IN
       IF lines = <<>>
       THEN finish(RespondToModel("offset exceeds file length or file is empty"))
       ELSE finish(Ok([k \in 1..Len(lines) |->
                          entry(args.offset + (k - 1), format_line(lines[k]))]))
    /\ UNCHANGED <<idle_vars, file, acp_client, args, request, content, scan_vars, fetches, outcome>>

\* read_block's validation (lines 269-293): the message of the first check
\* that fails, "" when all pass.
\* mutant: anchor_line is not checked
read_block_error_anchor_unchecked(len, offset, anchor, guard) ==
    IF offset = 0 THEN "offset must be a 1-indexed line number"
    ELSE IF len = 0 \/ offset > len THEN "offset exceeds file length"
    ELSE IF guard = 0 THEN "max_lines must be greater than zero"
    ELSE ""

\* mutant: max_lines is checked before anchor_line
read_block_error_guard_first(len, offset, anchor, guard) ==
    IF offset = 0 THEN "offset must be a 1-indexed line number"
    ELSE IF len = 0 \/ offset > len THEN "offset exceeds file length"
    ELSE IF guard = 0 THEN "max_lines must be greater than zero"
    ELSE IF anchor = 0 \/ anchor > len THEN "anchor_line exceeds file length"
    ELSE ""

read_block_error(len, offset, anchor, guard) ==
    IF offset = 0 THEN "offset must be a 1-indexed line number"
    ELSE IF len = 0 \/ offset > len THEN "offset exceeds file length"
    ELSE IF anchor = 0 \/ anchor > len THEN "anchor_line exceeds file length"
    ELSE IF guard = 0 THEN "max_lines must be greater than zero"
    ELSE ""

\* read_indent_block after the fetch, and read_block up to the loop.
read_indent_block ==
    /\ pc = "read_indent_block"
    /\ UNCHANGED <<idle_vars, file, acp_client, args, request, content, fetches, outcome,
                   i_counter_min_indent, j_counter_min_indent, progressed, steps,
                   threshold_stops, round_start, after_trim>>
    /\ LET records == collect_file_lines(text_read)
           error == read_block_error(Len(records), args.offset, anchor_line, guard_limit)
           failed(r) == /\ finish(r)
                        /\ UNCHANGED <<block_vars, i, j, out, peak>>
       IN
       IF text_read = <<>>
       THEN failed(RespondToModel("file is empty; nothing to read"))
       ELSE IF error # ""
       THEN failed(RespondToModel(error))
       ELSE IF anchor_index + 1 \notin 1..Len(records)
       THEN \* lines 295-297: anchor_line - 1 and effective_indents[anchor_index]
            failed(Panic("index out of bounds"))
       ELSE
         LET effective == compute_effective_indents(records)
             anchor_indent == effective[anchor_index + 1]
             limit == final_limit_of(args.limit, guard_limit, Len(records))
         IN /\ collected' = records
            /\ effective_indents' = effective
            /\ min_indent' = min_indent_of(options.max_levels, anchor_indent)
            /\ final_limit' = limit
            /\ IF limit = 1
               THEN /\ finish(Ok(<<entry(records[anchor_index + 1].number,
                                         records[anchor_index + 1].display)>>))
                    /\ UNCHANGED <<i, j, out, peak>>
               ELSE /\ i' = anchor_index - 1
                    /\ j' = anchor_index + 1
                    /\ out' = <<anchor_index>>
                    /\ peak' = 1
                    /\ pc' = IF 1 < limit THEN "up" ELSE "trim"
                    /\ result' = result

\* mutant: a second boundary line passes as well
can_take_line_second(allow_header_comment, counter) == allow_header_comment \/ counter <= 1

\* line 333: may the upward boundary line stay
can_take_line(allow_header_comment, counter) == allow_header_comment \/ counter = 0

\* mutant: the undone push still counts as progress
undone_still_counted(count) == count

\* lines 338 and 362: progressed -= 1
undone(count) == count - 1

\* mutant: the downward side lets a second boundary line through
j_undo_late(counter) == counter > 1

\* line 360: is the downward boundary line undone
j_undo(counter) == counter > 0

\* lines 340 and 348, 363 and 368: the value that deactivates a cursor
i_deactivated == -1
j_deactivated == Len(collected)

\* VecDeque::push_front, push_back, pop_front, pop_back, truncate
\* mutant: the upward line is put at the back of the window
push_front_at_back(q, x) == Append(q, x)

push_front(q, x) == <<x>> \o q
push_back(q, x) == Append(q, x)
pop_front(q) == Tail(q)
pop_back(q) == SubSeq(q, 1, Len(q) - 1)
truncate(q, n) == IF Len(q) > n THEN SubSeq(q, 1, n) ELSE q

\* mutant: the break after the upward push comes one line late
up_break_late(len) == len > final_limit

\* lines 344-346: the break after the upward push
up_break(len) == len >= final_limit

\* mutant: every line passes the threshold
passes_min_indent_always(effective, threshold) == TRUE

\* lines 325 and 354: is the line at or above the threshold
passes_min_indent(effective, threshold) == effective >= threshold

\* The upward half of one round of the loop (lines 322-350).
scan_up ==
    /\ pc = "up"
    /\ steps' = steps + 1
    /\ round_start' = Len(out)
    /\ UNCHANGED <<idle_vars, file, acp_client, args, request, content, result, fetches,
                   outcome, block_vars, j, j_counter_min_indent, after_trim>>
    /\ IF i >= 0
       THEN LET iu == i IN
            IF passes_min_indent(effective_indents[iu + 1], min_indent)
            THEN LET pushed == push_front(out, iu)
                     boundary == effective_indents[iu + 1] = min_indent
                                   /\ ~options.include_siblings
                     allow_header_comment == options.include_header /\ is_comment(rec_at(iu))
                     keep == ~boundary \/ can_take_line(allow_header_comment, i_counter_min_indent)
                 IN /\ peak' = Max(peak, Len(pushed))
                    /\ out' = IF keep THEN pushed ELSE pop_front(pushed)
                    /\ progressed' = IF keep THEN 1 ELSE undone(1)
                    /\ i' = IF keep THEN i - 1 ELSE i_deactivated
                    /\ i_counter_min_indent' =
                          IF boundary /\ keep THEN i_counter_min_indent + 1
                                              ELSE i_counter_min_indent
                    /\ pc' = IF up_break(Len(out')) THEN "trim" ELSE "down"
                    /\ threshold_stops' = threshold_stops
            ELSE /\ i' = i_deactivated
                 /\ progressed' = 0
                 /\ pc' = "down"
                 /\ threshold_stops' = threshold_stops + 1
                 /\ UNCHANGED <<out, i_counter_min_indent, peak>>
       ELSE /\ progressed' = 0
            /\ pc' = "down"
            /\ UNCHANGED <<i, out, i_counter_min_indent, peak, threshold_stops>>

\* The downward half of the round, the test of `progressed` and the loop's
\* condition (lines 352-375, 321).
scan_down ==
    /\ pc = "down"
    /\ steps' = steps + 1
    /\ UNCHANGED <<idle_vars, file, acp_client, args, request, content, result, fetches,
                   outcome, block_vars, i, i_counter_min_indent, round_start,
                   after_trim>>
    /\ IF j < Len(collected)
       THEN LET ju == j IN
            IF passes_min_indent(effective_indents[ju + 1], min_indent)
            THEN LET pushed == push_back(out, ju)
                     boundary == effective_indents[ju + 1] = min_indent
                                   /\ ~options.include_siblings
                     undo == boundary /\ j_undo(j_counter_min_indent)
                 IN /\ peak' = Max(peak, Len(pushed))
                    /\ out' = IF undo THEN pop_back(pushed) ELSE pushed
                    /\ progressed' = IF undo THEN undone(progressed + 1) ELSE progressed + 1
                    /\ j' = IF undo THEN j_deactivated ELSE j + 1
                    /\ j_counter_min_indent' =
                          IF boundary THEN j_counter_min_indent + 1
                                      ELSE j_counter_min_indent
                    /\ threshold_stops' = threshold_stops
            ELSE /\ j' = j_deactivated
                 /\ threshold_stops' = threshold_stops + 1
                 /\ UNCHANGED <<out, progressed, j_counter_min_indent, peak>>
       ELSE UNCHANGED <<j, out, progressed, j_counter_min_indent, peak, threshold_stops>>
    /\ pc' = IF progressed' = 0 THEN "trim"
             ELSE IF Len(out') < final_limit THEN "up" ELSE "trim"

\* trim_empty_lines
RECURSIVE trim_front(_)
trim_front(q) ==
    IF q # <<>> /\ trim(rec_at(Head(q)).raw) = <<>> THEN trim_front(pop_front(q)) ELSE q

RECURSIVE trim_back(_)
trim_back(q) ==
    IF q # <<>> /\ trim(rec_at(q[Len(q)]).raw) = <<>> THEN trim_back(pop_back(q)) ELSE q

\* mutant: only the back of the window is trimmed
trim_empty_lines_back_only(q) == trim_back(q)

trim_empty_lines(q) == trim_back(trim_front(q))

\* line 377
trim_window ==
    /\ pc = "trim"
    /\ out' = trim_empty_lines(out)
    /\ after_trim' = out'
    /\ pc' = "truncate"
    /\ UNCHANGED <<idle_vars, file, acp_client, args, request, content, result, fetches,
                   outcome, block_vars, i, j, i_counter_min_indent,
                   j_counter_min_indent, progressed, steps, peak, threshold_stops,
                   round_start>>

\* lines 379-386: the max_lines truncation and the rendering
truncate_window ==
    /\ pc = "truncate"
    /\ out' = IF options.max_lines.some THEN truncate(out, options.max_lines.v) ELSE out
    /\ finish(Ok(render(out')))
    /\ UNCHANGED <<idle_vars, file, acp_client, args, request, content, fetches, outcome,
                   block_vars, i, j, i_counter_min_indent, j_counter_min_indent,
                   progressed, steps, peak, threshold_stops, round_start, after_trim>>

\* The locals of the running invocation.
locals ==
    [args |-> args, pc |-> pc, request |-> request, content |-> content,
     collected |-> collected, effective_indents |-> effective_indents,
     min_indent |-> min_indent, final_limit |-> final_limit, i |-> i, j |-> j,
     i_counter_min_indent |-> i_counter_min_indent,
     j_counter_min_indent |-> j_counter_min_indent, out |-> out,
     progressed |-> progressed, result |-> result, fetches |-> fetches,
     steps |-> steps, peak |-> peak, threshold_stops |-> threshold_stops,
     round_start |-> round_start, after_trim |-> after_trim, outcome |-> outcome]

\* Two invocations of the handler are in progress at once: the one that was
\* running halts where it is, with its locals, and the other one runs on.
switch ==
    /\ other.pc # "done"
    /\ other' = locals
    /\ running' = 3 - running
    /\ overlapped' = (overlapped \/ (pc \notin {"handle", "done"}
                                      /\ other.pc \notin {"handle", "done"}))
    /\ args' = other.args /\ pc' = other.pc
    /\ request' = other.request /\ content' = other.content
    /\ collected' = other.collected
    /\ effective_indents' = other.effective_indents
    /\ min_indent' = other.min_indent /\ final_limit' = other.final_limit
    /\ i' = other.i /\ j' = other.j
    /\ i_counter_min_indent' = other.i_counter_min_indent
    /\ j_counter_min_indent' = other.j_counter_min_indent
    /\ out' = other.out /\ progressed' = other.progressed
    /\ result' = other.result /\ fetches' = other.fetches
    /\ steps' = other.steps /\ peak' = other.peak
    /\ threshold_stops' = other.threshold_stops
    /\ round_start' = other.round_start /\ after_trim' = other.after_trim
    /\ outcome' = other.outcome
    /\ UNCHANGED <<config_vars, file, acp_client>>

\* Vec::push
push(list, x) == Append(list, x)

\* mutant: the name is pushed without looking for it
with_read_file_always_pushed(tools) == push(tools, "read_file")

\* the list ensure_read_file_tool_enabled leaves behind
with_read_file(tools) ==
    IF ~(\E k \in 1..Len(tools) : tools[k] = "read_file")
    THEN push(tools, "read_file")
    ELSE tools

ensure_read_file_tool_enabled ==
    /\ pc = "config"
    /\ ensure_calls < MaxCalls
    /\ experimental_supported_tools' = with_read_file(experimental_supported_tools)
    /\ ensure_calls' = ensure_calls + 1
    /\ UNCHANGED <<tools_at_start, other, running, overlapped, file, acp_client, args, pc,
                   request, content, scan_vars, result, fetches, outcome>>

\* ------------------------------------------------------------ specification
ReadFileArgs(payload, path_absolute, offset, limit, mode, indentation) ==
    [payload |-> payload, path_absolute |-> path_absolute, offset |-> offset,
     limit |-> limit, mode |-> mode, indentation |-> indentation]

InitLocals ==
    /\ collected = <<>> /\ effective_indents = <<>>
    /\ min_indent = 0 /\ final_limit = 0
    /\ i = 0 /\ j = 0
    /\ i_counter_min_indent = 0 /\ j_counter_min_indent = 0
    /\ out = <<>>
    /\ progressed = 0
    /\ result = Pending
    /\ steps = 0 /\ peak = 0 /\ threshold_stops = 0 /\ round_start = 0
    /\ after_trim = <<>>

\* The locals of an invocation that handle has just received.
received(a) ==
    [args |-> a, pc |-> "handle", request |-> [line |-> None, limit |-> None],
     content |-> <<>>, collected |-> <<>>, effective_indents |-> <<>>,
     min_indent |-> 0, final_limit |-> 0, i |-> 0, j |-> 0,
     i_counter_min_indent |-> 0, j_counter_min_indent |-> 0, out |-> <<>>,
     progressed |-> 0, result |-> Pending, fetches |-> 0, steps |-> 0,
     peak |-> 0, threshold_stops |-> 0, round_start |-> 0, after_trim |-> <<>>,
     outcome |-> "none"]

\* One invocation is in progress and no other.
InitAlone ==
    /\ running = 1
    /\ overlapped = FALSE
    /\ other = [received(ReadFileArgs("Function", TRUE, DEFAULT_OFFSET, DEFAULT_LIMIT,
                                      "Slice", NoIndentation)) EXCEPT !.pc = "done"]

\* The configuration as the invocations find it.
InitConfigured ==
    /\ experimental_supported_tools = <<"read_file">>
    /\ ensure_calls = 0
    /\ tools_at_start = experimental_supported_tools

\* The invocation as handle receives it.
InitHandle ==
    /\ InitConfigured
    /\ pc = "handle"
    /\ request = [line |-> None, limit |-> None]
    /\ content = <<>>
    /\ fetches = 0
    /\ outcome = "none"
    /\ InitLocals

\* The values of `limit` and `max_lines` tried.
Limits == {0, 1, 2, DEFAULT_LIMIT}
MaxLines == OptionOf({0, 1, 2})

\* The indentation arguments of the handler's specification: absent, an
\* anchor line that is zero or beyond the longest file, a cap of zero, and
\* one level up with siblings, without header comments, capped at 3 lines.
HandlerIndentation ==
    {NoIndentation}
    \cup {Some([default_indentation EXCEPT !.anchor_line = Some(a)]) : a \in {0, MaxLen + 1}}
    \cup {Some([default_indentation EXCEPT !.max_lines = Some(0)])}
    \cup {Some([anchor_line |-> None, max_levels |-> 1, include_siblings |-> TRUE,
                include_header |-> FALSE, max_lines |-> Some(3)])}

\* Every invocation of the handler: both modes, with and without the client.
Init ==
    /\ file \in Files
    /\ acp_client \in {"unset", "set"}
    /\ \/ \E payload \in {"Malformed", "Other"} :
             args = ReadFileArgs(payload, TRUE, DEFAULT_OFFSET, DEFAULT_LIMIT,
                                 "Slice", NoIndentation)
       \/ \E path_absolute \in BOOLEAN, limit \in Limits,
             offset \in (0..MaxLen + 1) \cup {FIELD_MAX + 1} :
             args = ReadFileArgs("Function", path_absolute, offset, limit,
                                 "Slice", NoIndentation)
       \/ \E path_absolute \in BOOLEAN, limit \in Limits, offset \in 0..MaxLen + 1,
             indentation \in HandlerIndentation :
             args = ReadFileArgs("Function", path_absolute, offset, limit,
                                 "Indentation", indentation)
    /\ InitHandle
    /\ InitAlone

Next ==
    \/ handle
    \/ fetch_text
    \/ read_text_file_returns
    \/ read_slice
    \/ read_indent_block
    \/ scan_up
    \/ scan_down
    \/ trim_window
    \/ truncate_window

Spec == Init /\ [][Next]_vars

\* read_block as a function of the file and the arguments: the invocation
\* at the point where fetch_text has returned the whole file to
\* read_indent_block.
InitFetched ==
    /\ InitConfigured
    /\ InitAlone
    /\ acp_client = "set"
    /\ pc = "read_indent_block"
    /\ request = [line |-> None, limit |-> None]
    /\ content = file_text(file)
    /\ fetches = 1
    /\ outcome = "response"
    /\ InitLocals

\* offset and anchor_line: the anchor by offset alone, and an anchor_line
\* given that is the last line of the longest file, beyond it, or zero.
AnchorPairs ==
    {<<o, None>> : o \in 1..MaxLen + 1}
    \cup {<<1, Some(a)>> : a \in {MaxLen, MaxLen + 1}}
    \cup {<<1, Some(0)>>}

\* include_header is read only when include_siblings is false (line 330), so
\* with siblings included it is left at its default.
BlockIndentation ==
    {o \in [anchor_line : {None}, max_levels : {0, 1},
            include_siblings : BOOLEAN, include_header : BOOLEAN, max_lines : MaxLines] :
        o.include_siblings => o.include_header = default_indentation.include_header}

InitBlock ==
    /\ file \in Files
    /\ \E limit \in Limits \ {0}, pair \in AnchorPairs, o \in BlockIndentation :
          \* an anchor_line outside every file is tried with each max_lines
          \* and the default of the other options
          /\ pair[2] \in {Some(0), Some(MaxLen + 1)} =>
                /\ o.max_levels = DEFAULT_MAX_LEVELS
                /\ o.include_siblings = default_indentation.include_siblings
                /\ o.include_header = default_indentation.include_header
          /\ args = ReadFileArgs("Function", TRUE, pair[1], limit, "Indentation",
                                 Some([o EXCEPT !.anchor_line = pair[2]]))
    /\ InitFetched

NextBlock ==
    \/ read_indent_block
    \/ scan_up
    \/ scan_down
    \/ trim_window
    \/ truncate_window

SpecBlock == InitBlock /\ [][NextBlock]_vars


\* The files of the worked example of indentation mode: five lines that are
\* not blank, with indents 0, 4, 4, 4, 0, the indent written with a tab or
\* with spaces, code or comment.
ScenarioIndents == <<0, 4, 4, 4, 0>>

ScenarioChoices ==
    { <<"x">>, <<"#">>, <<"\t", "x">>, <<" ", " ", " ", " ", "x">>, <<"\t", "#">> }

IsScenarioFile(f) ==
    /\ Len(f) = Len(ScenarioIndents)
    /\ \A k \in 1..Len(f) : /\ trim(f[k]) # <<>>
                            /\ measure_indent(f[k]) = ScenarioIndents[k]

InitScenario ==
    /\ file \in {f \in [1..Len(ScenarioIndents) -> ScenarioChoices] : IsScenarioFile(f)}
    /\ \E offset \in 1..Len(ScenarioIndents), anchor \in {None, Some(3)},
          max_levels \in 0..2, include_siblings \in BOOLEAN, include_header \in BOOLEAN :
          args = ReadFileArgs("Function", TRUE, offset, DEFAULT_LIMIT, "Indentation",
                     Some([anchor_line |-> anchor, max_levels |-> max_levels,
                           include_siblings |-> include_siblings,
                           include_header |-> include_header, max_lines |-> None]))
    /\ InitFetched

SpecScenario == InitScenario /\ [][NextBlock]_vars

\* compute_effective_indents as read_block applies it: files whose blank
\* lines are empty or hold a space or a tab, whose other lines are indented
\* by nothing, a space, a tab or two tabs, read with a limit of one line.
IndentLineChoices ==
    { <<>>, <<" ">>, <<"\t">>, <<"x">>, <<" ", "x">>, <<"\t", "x">>, <<"\t", "\t", "x">> }

InitIndents ==
    /\ file \in UNION { [1..n -> IndentLineChoices] : n \in 0..MaxLen }
    /\ args = ReadFileArgs("Function", TRUE, DEFAULT_OFFSET, 1, "Indentation", NoIndentation)
    /\ InitFetched

NextIndents == read_indent_block

SpecIndents == InitIndents /\ [][NextIndents]_vars

\* Two invocations in progress at once on one file: slices and indentation
\* blocks, and a call that handle rejects.
PairLen == 2

PairArgs ==
    { ReadFileArgs("Function", TRUE, 1, 1, "Slice", NoIndentation),
      ReadFileArgs("Function", TRUE, 2, DEFAULT_LIMIT, "Slice", NoIndentation),
      ReadFileArgs("Function", TRUE, 0, DEFAULT_LIMIT, "Slice", NoIndentation),
      ReadFileArgs("Function", TRUE, 1, DEFAULT_LIMIT, "Indentation", NoIndentation),
      ReadFileArgs("Function", TRUE, PairLen, DEFAULT_LIMIT, "Indentation",
                   Some([default_indentation EXCEPT !.max_levels = 1])) }

InitPair ==
    /\ file \in UNION { [1..n -> LineChoices] : n \in 0..PairLen }
    /\ acp_client \in {"unset", "set"}
    /\ args \in PairArgs
    /\ InitHandle
    /\ running = 1
    /\ overlapped = FALSE
    /\ \E a \in PairArgs : other = received(a)

NextPair ==
    \/ handle
    \/ fetch_text
    \/ read_text_file_returns
    \/ read_slice
    \/ read_indent_block
    \/ scan_up
    \/ scan_down
    \/ trim_window
    \/ truncate_window
    \/ switch

SpecPair == InitPair /\ [][NextPair]_vars

\* The configuration step: ensure_read_file_tool_enabled called again and
\* again on a supported-tools list, before any invocation.
ToolNames == {"read_file", "read_files", "list_dir"}

InitConfig ==
    /\ experimental_supported_tools \in UNION {[1..n -> ToolNames] : n \in 0..MaxTools}
    /\ tools_at_start = experimental_supported_tools
    /\ ensure_calls = 0
    /\ InitAlone
    /\ file = <<>>
    /\ acp_client = "unset"
    /\ args = ReadFileArgs("Function", TRUE, DEFAULT_OFFSET, DEFAULT_LIMIT,
                           "Slice", NoIndentation)
    /\ pc = "config"
    /\ request = [line |-> None, limit |-> None]
    /\ content = <<>>
    /\ fetches = 0
    /\ outcome = "none"
    /\ InitLocals

NextConfig == ensure_read_file_tool_enabled

SpecConfig == InitConfig /\ [][NextConfig]_vars

\* ------------------------------------------------------------------ claims
Succeeded == pc = "done" /\ result.kind = "Ok"
IndentationMode == args.mode = "Indentation"
InScan == pc \in {"up", "down", "trim", "truncate"}
numbers == [k \in 1..Len(result.lines) |-> result.lines[k].number]
IsAscendingRange(q) == \A k \in 1..Len(q) - 1 : q[k + 1] = q[k] + 1
IsBlankText(text) == trim(text) = <<>>
\* min(limit, max_lines if given, number of lines of the file)
Budget == Min(Min(args.limit, unwrap_or(options.max_lines, args.limit)), Len(file))
\* offset and anchor_line are lines of the file
ValidAnchor == /\ args.offset \in 1..Len(file)
               /\ anchor_line \in 1..Len(file)

\* C1 (as claimed): a successful indentation-mode call returns the anchor
\* line among its lines.
C1_AnchorReturned ==
    (Succeeded /\ IndentationMode) => \E k \in 1..Len(numbers) : numbers[k] = anchor_line

\* C2: the window is a run of consecutive lines of the file in ascending
\* order after every step of the scan, after trimming and after truncation,
\* and so are the line numbers of a successful indentation-mode result.
C2_Contiguous ==
    /\ InScan => /\ IsAscendingRange(out)
                 /\ \A k \in 1..Len(out) : out[k] \in 0..Len(file) - 1
    /\ (Succeeded /\ IndentationMode) =>
          /\ IsAscendingRange(numbers)
          /\ \A k \in 1..Len(numbers) : numbers[k] \in 1..Len(file)

\* C2 witness: the scan has ended with two or more lines in the window after
\* a push was undone.
C2_Witness == pc = "trim" /\ Len(out) >= 2 /\ peak > Len(out)

\* C3: the window never holds more than min(limit, max_lines, file length)
\* lines, not even between a push and its undo, and neither does the result.
C3_Bounded ==
    /\ InScan => (Len(out) <= Budget /\ peak <= Budget)
    /\ (Succeeded /\ IndentationMode) => Len(result.lines) <= Budget

\* C3 witness: a result that fills a budget of two or more lines that is
\* smaller than the file.
C3_Witness ==
    /\ Succeeded /\ IndentationMode
    /\ Budget >= 2 /\ Budget < Len(file)
    /\ Len(result.lines) = Budget

\* C4 (as claimed): a non-empty successful indentation-mode result neither
\* opens nor closes on a blank line, whatever final_limit is.
C4_NoBlankEdge ==
    (Succeeded /\ IndentationMode /\ result.lines # <<>>) =>
        /\ ~IsBlankText(result.lines[1].text)
        /\ ~IsBlankText(result.lines[Len(result.lines)].text)

\* C4 (amended): the same for every call whose budget final_limit is two or
\* more; with a budget of one the anchor line is returned as it is.
C4_NoBlankEdgeAfterScan ==
    (Succeeded /\ IndentationMode /\ Budget >= 2 /\ result.lines # <<>>) =>
        /\ ~IsBlankText(result.lines[1].text)
        /\ ~IsBlankText(result.lines[Len(result.lines)].text)

\* C4 witness: the scan stopped on its budget with the upward cursor still
\* active, and trimming took blank lines off the front of a window that
\* stays non-empty.
C4_Witness == pc = "truncate" /\ out # <<>> /\ i >= 0 /\ Head(out) > i + 1

\* C8: with max_lines = 1 and offset and anchor_line in the file the result
\* is the anchor line alone, and no step of the scan runs.
C8_MaxLinesOne ==
    (IndentationMode /\ options.max_lines = Some(1)) =>
        /\ steps = 0
        /\ (pc = "done" /\ outcome = "response" /\ ValidAnchor) =>
              /\ result.kind = "Ok"
              /\ result.lines = <<entry(anchor_line, format_line(file[anchor_line]))>>

\* C8 witness: max_lines = 1 with the default limit on a file of two or more
\* lines, anchored below the first line.
C8_Witness ==
    /\ Succeeded /\ IndentationMode
    /\ options.max_lines = Some(1) /\ args.limit = DEFAULT_LIMIT
    /\ Len(file) >= 2 /\ anchor_line >= 2

\* The boundary lines from the line after the anchor down to line n.
BoundaryBelow(n) ==
    {m \in anchor_line + 1..n : effective_indents[m] = min_indent}

\* C9: with include_siblings = false every line of the window and of the
\* result that lies below the anchor has at most one boundary line
\* (effective indent = min_indent) between the anchor and itself, itself
\* included: one boundary line at most is kept, and nothing from the second
\* on.
C9_OneBoundaryBelow ==
    (IndentationMode /\ ~options.include_siblings) =>
        /\ InScan =>
              \A k \in 1..Len(out) : Cardinality(BoundaryBelow(out[k] + 1)) <= 1
        /\ Succeeded =>
              \A k \in 1..Len(numbers) : Cardinality(BoundaryBelow(numbers[k])) <= 1

\* C9 witness: the downward cursor met a second boundary line, and the
\* result holds a line below the anchor.
C9_Witness ==
    /\ Succeeded /\ IndentationMode /\ ~options.include_siblings
    /\ j_counter_min_indent >= 2
    /\ \E k \in 1..Len(numbers) : numbers[k] > anchor_line


\* The call of the worked example: anchor line 3, max_levels = 1,
\* include_siblings = true, the default limit and no max_lines.
ScenarioCall ==
    /\ IsScenarioFile(file)
    /\ IndentationMode
    /\ anchor_line = 3
    /\ options.max_levels = 1 /\ options.include_siblings
    /\ args.limit = DEFAULT_LIMIT /\ options.max_lines = None

\* lines a..b of the file as entries
FileEntries(a, b) == [k \in 1..(b - a + 1) |-> entry(a + k - 1, format_line(file[a + k - 1]))]

\* C5 (as claimed): the call of the worked example returns lines 2, 3 and 4.
C5_ReturnsTwoToFour ==
    (ScenarioCall /\ pc = "done") => (result.kind = "Ok" /\ result.lines = FileEntries(2, 4))

\* C5 (amended): it returns all five lines: min_indent is 4 - 1 * 4 = 0, and
\* with siblings included the lines of indent 0 pass the threshold.
C5_ReturnsAllFive ==
    (ScenarioCall /\ pc = "done") => (result.kind = "Ok" /\ result.lines = FileEntries(1, 5))

\* C5 witness: the call of the worked example has returned after two rounds.
C5_Witness == ScenarioCall /\ Succeeded /\ steps >= 4

\* C6 (as claimed): a successful slice-mode call returns at most `limit`
\* lines.
C6_SliceAtMostLimit ==
    (Succeeded /\ args.mode = "Slice") => Len(result.lines) <= args.limit

\* C7 (as claimed): every entry of a successful result is labelled with a
\* line number of the file and carries the display form of that line, and in
\* slice mode the k-th entry (k from 0) is labelled offset + k.
C7_NumbersMatchFile ==
    Succeeded =>
        \A k \in 1..Len(result.lines) :
            /\ result.lines[k].number \in 1..Len(file)
            /\ result.lines[k].text = format_line(file[result.lines[k].number])
            /\ args.mode = "Slice" => result.lines[k].number = args.offset + (k - 1)

\* C10 (as claimed): an uninitialized client and an error returned by the
\* client's read_text_file both end the invocation with Fatal and no lines.
C10_FetchFailureIsFatal ==
    (pc = "done" /\ outcome \in {"not_initialized", "client_error"}) =>
        (result.kind = "Fatal" /\ result.lines = <<>>)

\* C10 (amended): an uninitialized client and a failed join of the blocking
\* task end the invocation with Fatal; an error returned by read_text_file
\* ends it with the recoverable RespondToModel("ACP client error"); no lines
\* are returned in any of the three.
C10_FetchFailureKinds ==
    pc = "done" =>
        /\ outcome \in {"not_initialized", "join_error"} =>
              (result.kind = "Fatal" /\ result.lines = <<>>)
        /\ outcome = "client_error" =>
              /\ result.kind = "RespondToModel"
              /\ result.msg = "ACP client error"
              /\ result.lines = <<>>

\* C10 witness: the client's read_text_file has returned an error and the
\* invocation has ended.
C10_Witness == pc = "done" /\ outcome = "client_error" /\ fetches = 1

\* The call is one of indentation mode on a file that is not empty, fetched
\* without failure, with offset a line of the file, a limit above zero and
\* an absolute path.
FetchedIndentationCall ==
    /\ IndentationMode /\ args.payload = "Function"
    /\ outcome = "response"
    /\ Len(file) >= 1 /\ args.offset \in 1..Len(file)
    /\ args.limit > 0 /\ args.path_absolute

\* anchor_line is given and is zero or greater than the file's length
AnchorOutside ==
    /\ options.anchor_line.some
    /\ (options.anchor_line.v = 0 \/ options.anchor_line.v > Len(file))

\* C11: such a call whose anchor_line is zero or greater than the file's
\* length ends with the error "anchor_line exceeds file length", returns no
\* lines and runs no scan step, whatever max_lines is, zero included.
C11_AnchorOutsideFile ==
    (FetchedIndentationCall /\ AnchorOutside) =>
        /\ steps = 0 /\ out = <<>>
        /\ pc = "done" =>
              result = RespondToModel("anchor_line exceeds file length")

\* C11 witness: the call has ended with anchor_line beyond the file and
\* max_lines = 0.
C11_Witness ==
    /\ FetchedIndentationCall /\ AnchorOutside /\ pc = "done"
    /\ options.anchor_line.v > Len(file) /\ args.offset = Len(file)
    /\ options.max_lines = Some(0)

\* how often the name occurs in the list
RECURSIVE occurrences(_, _)
occurrences(list, name) ==
    IF list = <<>> THEN 0
    ELSE (IF Head(list) = name THEN 1 ELSE 0) + occurrences(Tail(list), name)

\* C12: after one call or more of ensure_read_file_tool_enabled the list
\* opens with the entries it had before the first call, in their order;
\* "read_file" has been appended once if it was absent and nothing has been
\* appended if it was present; this holds after the first call and after
\* every further one, so the calls after the first leave the list as it is.
C12_EnsureIdempotent ==
    ensure_calls >= 1 =>
        LET before == tools_at_start
            now == experimental_supported_tools
        IN /\ Len(now) >= Len(before)
           /\ SubSeq(now, 1, Len(before)) = before
           /\ IF occurrences(before, "read_file") = 0
              THEN now = before \o <<"read_file">>
              ELSE now = before

\* C12 witness: the last of the calls allowed has returned on a list that
\* was full and held the name already, next to another name.
C12_Witness ==
    /\ ensure_calls = MaxCalls
    /\ Len(tools_at_start) = MaxTools
    /\ occurrences(tools_at_start, "read_file") >= 1
    /\ occurrences(tools_at_start, "read_files") >= 1

\* The line of index m (from 0) is a boundary line: its effective indent is
\* min_indent.
IsBoundary(m) == effective_indents[m + 1] = min_indent

\* The boundary lines of the window above the anchor.
UpperBoundaryKept == {out[k] : k \in {h \in 1..Len(out) : out[h] < anchor_index /\ IsBoundary(out[h])}}

\* A boundary line above the anchor that the upward cursor may keep: no
\* boundary line lies between it and the anchor, or include_header is true
\* and it is a comment line.
MayBeKept(n) ==
    \/ \A m \in n + 1..anchor_index - 1 : ~IsBoundary(m)
    \/ options.include_header /\ is_comment(rec_at(n))

\* The line of index m is not at or above a boundary line that is rejected.
BelowEveryRejected(m) ==
    \A n \in m..anchor_index - 1 : IsBoundary(n) => MayBeKept(n)

\* C14: with include_siblings = false, every line of the window and of the
\* result above the anchor lies below every boundary line that is neither
\* the first one the upward cursor meets nor a comment with include_header
\* true; of the boundary lines kept above the anchor at most one is not a
\* comment; and while the scan runs, the upward counter is the number of
\* boundary lines kept above the anchor.
C14_UpwardBoundary ==
    (IndentationMode /\ ~options.include_siblings) =>
        /\ InScan =>
              /\ \A k \in 1..Len(out) : out[k] < anchor_index => BelowEveryRejected(out[k])
              /\ Cardinality({m \in UpperBoundaryKept : ~is_comment(rec_at(m))}) <= 1
        /\ pc \in {"up", "down", "trim"} =>
              i_counter_min_indent = Cardinality(UpperBoundaryKept)
        /\ Succeeded =>
              \A k \in 1..Len(numbers) :
                  numbers[k] - 1 < anchor_index => BelowEveryRejected(numbers[k] - 1)

\* C14 witness: the scan has ended below its budget with a boundary line
\* kept above the anchor and the window opening on the line below a
\* boundary line that was rejected.
C14_Witness ==
    /\ IndentationMode /\ ~options.include_siblings
    /\ pc = "trim" /\ Len(out) < final_limit
    /\ UpperBoundaryKept # {}
    /\ Head(out) >= 1
    /\ IsBoundary(Head(out) - 1) /\ ~MayBeKept(Head(out) - 1)

\* The indent of line n (from 1) of the file f that counts for the scan: its
\* own if it is not blank, else that of the nearest line before it that is
\* not blank, and 0 when there is none.
RECURSIVE EffectiveIndentOf(_, _)
EffectiveIndentOf(f, n) ==
    IF n = 0 THEN 0
    ELSE IF trim(f[n]) # <<>> THEN measure_indent(f[n])
    ELSE EffectiveIndentOf(f, n - 1)

\* max_levels = 0 ? 0 : max(0, anchor_indent - max_levels * 4)
ThresholdOf(f, anchor, max_levels) ==
    IF max_levels = 0 THEN 0
    ELSE Max(0, EffectiveIndentOf(f, anchor) - max_levels * 4)

\* read_block has passed its validation
BlockStarted == IndentationMode /\ (InScan \/ Succeeded)

\* C15: min_indent is 0 when max_levels = 0 and max(0, anchor_indent -
\* 4 * max_levels) otherwise; every line of the window, after every step of
\* the scan, and every line of the result has an effective indent of
\* min_indent or more; and with max_levels = 0 no cursor is deactivated by
\* the threshold.
C15_AtOrAboveThreshold ==
    BlockStarted =>
        /\ min_indent = ThresholdOf(file, anchor_line, options.max_levels)
        /\ InScan =>
              \A k \in 1..Len(out) : EffectiveIndentOf(file, out[k] + 1) >= min_indent
        /\ Succeeded =>
              \A k \in 1..Len(numbers) : EffectiveIndentOf(file, numbers[k]) >= min_indent
        /\ options.max_levels = 0 => threshold_stops = 0

\* C15 witness: with a threshold above zero a cursor met a line below it and
\* was deactivated, and the call returned two lines or more.
C15_Witness ==
    /\ Succeeded /\ IndentationMode
    /\ min_indent > 0 /\ threshold_stops >= 1
    /\ Len(result.lines) >= 2

\* The preconditions of an indentation-mode call: arguments that parse, an
\* offset and a limit above zero, an absolute path, a fetch that answers, a
\* file that is not empty, offset and anchor_line lines of the file, and
\* max_lines, if given, above zero.
Preconditions ==
    /\ args.payload = "Function"
    /\ args.offset >= 1 /\ args.limit >= 1 /\ args.path_absolute
    /\ acp_client = "set" /\ outcome = "response"
    /\ Len(file) >= 1
    /\ ValidAnchor
    /\ guard_limit >= 1

\* C16: an indentation-mode call that ends in an error has run no step of
\* the scan and has put no line in the window; no index is out of range: the
\* call never panics and, while the scan, the trimming and the truncation
\* run, the cursors and the entries of the window stay within the records;
\* and the call ends in success when its preconditions hold, and only then.
C16_ValidationBeforeScan ==
    IndentationMode =>
        /\ result.kind \in {"RespondToModel", "Fatal", "Panic"} =>
              (steps = 0 /\ peak = 0 /\ out = <<>>)
        /\ result.kind # "Panic"
        /\ InScan =>
              /\ Preconditions
              /\ Len(effective_indents) = Len(collected)
              /\ anchor_index \in 0..Len(collected) - 1
              /\ i \in -1..Len(collected) - 1
              /\ j \in 0..Len(collected)
              /\ \A k \in 1..Len(out) : out[k] \in 0..Len(collected) - 1
        /\ pc = "done" => (result.kind = "Ok" <=> Preconditions)

\* C16 witness: a call whose preconditions hold has ended in success after
\* two rounds of the scan, the trimming and the truncation.
C16_Witness ==
    /\ IndentationMode /\ Preconditions
    /\ Succeeded /\ steps >= 4
    /\ Len(result.lines) >= 2

\* The handler returns before the fetch: the arguments do not parse, offset
\* or limit is zero, or the path is not absolute.
RejectedByHandle ==
    \/ args.payload # "Function"
    \/ args.offset = 0 \/ args.limit = 0 \/ ~args.path_absolute

\* C17 (as claimed): an invocation whose arguments parse has issued, when it
\* ends, no fetch request if offset = 0, limit = 0 or the path is not
\* absolute, and exactly one otherwise.
C17_ExactlyOneFetch ==
    /\ fetches <= 1
    /\ (pc = "done" /\ args.payload = "Function") =>
          fetches = (IF RejectedByHandle THEN 0 ELSE 1)

\* C17 (amended): an invocation never issues more than one fetch request;
\* when it ends it has issued none if the handler rejected it or the client
\* is not initialized, and exactly one otherwise; a fetch that failed has
\* ended the invocation in an error, with that one request issued; and
\* whatever follows a fetch that succeeded runs with that one request issued.
C17_AtMostOneFetch ==
    /\ fetches <= 1
    /\ pc = "done" =>
          fetches = (IF RejectedByHandle \/ acp_client = "unset" THEN 0 ELSE 1)
    /\ outcome \in {"client_error", "join_error"} =>
          /\ pc = "done" /\ fetches = 1
          /\ result.kind \in {"RespondToModel", "Fatal"}
    /\ outcome = "not_initialized" =>
          /\ pc = "done" /\ fetches = 0
          /\ result.kind = "Fatal"
    /\ pc \in {"read_slice", "read_indent_block", "up", "down", "trim", "truncate"} =>
          (fetches = 1 /\ outcome = "response")

\* C17 witness: an indentation-mode invocation has ended after the blocking
\* task of its one fetch failed to join.
C17_Witness ==
    /\ pc = "done" /\ IndentationMode
    /\ outcome = "join_error" /\ fetches = 1

\* The rounds of the loop begun so far: a round is an upward step and, unless
\* the upward step ends the loop, a downward step.
Rounds == (steps + 1) \div 2

\* C18: the loop ends after final_limit - 1 rounds at most: no more rounds
\* than that are ever begun; a round that does not end the loop has added
\* `progressed` lines to the window, one or more, net of the pushes undone;
\* and when the loop has ended the window has final_limit lines or the last
\* round made no progress.
C18_LoopTerminates ==
    (IndentationMode /\ pc \in {"up", "down", "trim"}) =>
        /\ Rounds <= final_limit - 1
        /\ pc = "up" =>
              /\ steps % 2 = 0
              /\ Len(out) < final_limit
              /\ steps > 0 => /\ progressed >= 1
                              /\ Len(out) = round_start + progressed
        /\ pc = "down" => (steps % 2 = 1 /\ Len(out) < final_limit)
        /\ pc = "trim" =>
              /\ Len(out) = final_limit \/ progressed = 0
              /\ Len(out) = round_start + progressed

\* C18 witness: the loop has ended below its budget, in its second round or
\* a later one, in a round that made no progress, after a push was undone.
C18_Witness ==
    /\ IndentationMode /\ pc = "trim"
    /\ Rounds >= 2 /\ Rounds = final_limit - 1
    /\ progressed = 0 /\ Len(out) < final_limit
    /\ peak > Len(out)

\* The file with every blank line emptied.
BlanksEmptied(f) == [n \in 1..Len(f) |-> IF trim(f[n]) = <<>> THEN <<>> ELSE f[n]]

\* C19: the effective indents read_block computes are one per line of the
\* file, in order: the own indent of a line that is not blank, and for a
\* blank line the indent of the nearest line before it that is not blank, 0
\* when there is none; they are the same as for the file with its blank
\* lines emptied.
C19_EffectiveIndents ==
    (IndentationMode /\ Succeeded) =>
        /\ Len(effective_indents) = Len(file)
        /\ \A n \in 1..Len(file) : effective_indents[n] = EffectiveIndentOf(file, n)
        /\ effective_indents =
              compute_effective_indents(collect_file_lines(file_text(BlanksEmptied(file))))

\* C19 witness: a file that opens on a blank line holding a tab and has,
\* further down, a blank line holding a tab or a space right after an
\* indented line that is not blank.
C19_Witness ==
    /\ IndentationMode /\ Succeeded
    /\ Len(file) = MaxLen
    /\ file[1] = <<"\t">>
    /\ \E n \in 2..Len(file) - 1 :
          /\ trim(file[n]) # <<>> /\ measure_indent(file[n]) > 0
          /\ file[n + 1] \in {<<" ">>, <<"\t">>}
          /\ measure_indent(file[n + 1]) # measure_indent(file[n])

\* C20: when max_lines is given, the window that trim_empty_lines leaves has
\* max_lines lines at most, so that the truncation leaves it as it is, and
\* the result of a call that ran the scan is that window, line for line.
C20_TruncationKeepsAll ==
    (IndentationMode /\ options.max_lines.some) =>
        /\ pc = "truncate" =>
              /\ Len(out) <= options.max_lines.v
              /\ truncate(out, options.max_lines.v) = out
        /\ (Succeeded /\ steps > 0) =>
              /\ out = after_trim
              /\ result.lines = render(after_trim)

\* C20 witness: the call has returned a window of max_lines lines, two or
\* more, that closes on the anchor line, from a file of more lines, with a
\* limit above max_lines.
C20_Witness ==
    /\ IndentationMode /\ Succeeded /\ steps > 0
    /\ options.max_lines.some /\ options.max_lines.v >= 2
    /\ Len(after_trim) = options.max_lines.v
    /\ after_trim[Len(after_trim)] = anchor_index
    /\ Len(file) > options.max_lines.v /\ args.limit > options.max_lines.v

\* ---- the result of an invocation that runs alone, as a function of its
\* arguments, of the client and of the answer to its fetch

\* The request an invocation with the arguments a sends.
RequestAlone(a) ==
    IF a.mode = "Slice"
    THEN [line |-> try_into_field(a.offset), limit |-> try_into_field(a.limit)]
    ELSE [line |-> None, limit |-> None]

\* Slice mode: the lines of the text, numbered from offset.
SliceAlone(a, text) ==
    LET ls == split_lines(text) IN
    IF ls = <<>> THEN RespondToModel("offset exceeds file length or file is empty")
    ELSE Ok([k \in 1..Len(ls) |-> entry(a.offset + k - 1, format_line(ls[k]))])

\* One upward step from the window w with the upward cursor at u and cnt
\* boundary lines kept above the anchor.
UpAlone(recs, eff, low, o, w, u, cnt) ==
    IF u < 0 THEN [w |-> w, u |-> u, cnt |-> cnt, gain |-> 0, pushed |-> FALSE]
    ELSE IF eff[u + 1] < low
    THEN [w |-> w, u |-> -1, cnt |-> cnt, gain |-> 0, pushed |-> FALSE]
    ELSE IF eff[u + 1] = low /\ ~o.include_siblings
              /\ cnt > 0 /\ ~(o.include_header /\ is_comment(recs[u + 1]))
    THEN [w |-> w, u |-> -1, cnt |-> cnt, gain |-> 0, pushed |-> TRUE]
    ELSE [w |-> <<u>> \o w, u |-> u - 1,
          cnt |-> IF eff[u + 1] = low /\ ~o.include_siblings THEN cnt + 1 ELSE cnt,
          gain |-> 1, pushed |-> TRUE]

\* One downward step, with the downward cursor at d and cnt boundary lines
\* met below the anchor.
DownAlone(recs, eff, low, o, w, d, cnt) ==
    IF d >= Len(recs) THEN [w |-> w, d |-> d, cnt |-> cnt, gain |-> 0]
    ELSE IF eff[d + 1] < low
    THEN [w |-> w, d |-> Len(recs), cnt |-> cnt, gain |-> 0]
    ELSE IF eff[d + 1] = low /\ ~o.include_siblings
    THEN (IF cnt > 0
          THEN [w |-> w, d |-> Len(recs), cnt |-> cnt + 1, gain |-> 0]
          ELSE [w |-> Append(w, d), d |-> d + 1, cnt |-> cnt + 1, gain |-> 1])
    ELSE [w |-> Append(w, d), d |-> d + 1, cnt |-> cnt, gain |-> 1]

\* The window when the rounds have ended.
RECURSIVE RoundsAlone(_, _, _, _, _, _, _, _, _, _)
RoundsAlone(recs, eff, low, budget, o, w, u, d, ucnt, dcnt) ==
    IF Len(w) >= budget THEN w
    ELSE LET up == UpAlone(recs, eff, low, o, w, u, ucnt) IN
         IF up.pushed /\ Len(up.w) >= budget THEN up.w
         ELSE LET down == DownAlone(recs, eff, low, o, up.w, d, dcnt) IN
              IF up.gain + down.gain = 0 THEN down.w
              ELSE RoundsAlone(recs, eff, low, budget, o, down.w, up.u, down.d,
                               up.cnt, down.cnt)

\* The window without the blank lines at its ends.
RECURSIVE TrimAlone(_, _)
TrimAlone(recs, w) ==
    IF w = <<>> THEN w
    ELSE IF trim(recs[Head(w) + 1].raw) = <<>> THEN TrimAlone(recs, Tail(w))
    ELSE IF trim(recs[w[Len(w)] + 1].raw) = <<>>
    THEN TrimAlone(recs, SubSeq(w, 1, Len(w) - 1))
    ELSE w

\* Indentation mode.
BlockAlone(a, text) ==
    LET recs == collect_file_lines(text)
        o == unwrap_or(a.indentation, default_indentation)
        anchor == unwrap_or(o.anchor_line, a.offset)
        cap == unwrap_or(o.max_lines, a.limit)
    IN
    IF text = <<>> THEN RespondToModel("file is empty; nothing to read")
    ELSE IF a.offset > Len(recs) THEN RespondToModel("offset exceeds file length")
    ELSE IF anchor = 0 \/ anchor > Len(recs)
    THEN RespondToModel("anchor_line exceeds file length")
    ELSE IF cap = 0 THEN RespondToModel("max_lines must be greater than zero")
    ELSE
      LET eff == [n \in 1..Len(recs) |-> EffectiveIndentOf(split_lines(text), n)]
          low == IF o.max_levels = 0 THEN 0
                 ELSE Max(0, eff[anchor] - o.max_levels * TAB_WIDTH)
          budget == Min(Min(a.limit, cap), Len(recs))
          scanned == RoundsAlone(recs, eff, low, budget, o, <<anchor - 1>>,
                                 anchor - 2, anchor, 0, 0)
          trimmed_window == TrimAlone(recs, scanned)
          kept == IF Len(trimmed_window) > cap THEN SubSeq(trimmed_window, 1, cap)
                  ELSE trimmed_window
      IN IF budget = 1
         THEN Ok(<<entry(anchor, recs[anchor].display)>>)
         ELSE Ok([k \in 1..Len(kept) |-> entry(kept[k] + 1, recs[kept[k] + 1].display)])

\* The whole invocation: `how` is the way the call of the client ended and
\* `text` the text it returned.
ResultAlone(a, client, how, text) ==
    IF a.payload = "Other"
    THEN RespondToModel("read_file handler received unsupported payload")
    ELSE IF a.payload = "Malformed"
    THEN RespondToModel("failed to parse function arguments")
    ELSE IF a.offset = 0 THEN RespondToModel("offset must be a 1-indexed line number")
    ELSE IF a.limit = 0 THEN RespondToModel("limit must be greater than zero")
    ELSE IF ~a.path_absolute THEN RespondToModel("file_path must be an absolute path")
    ELSE IF client = "unset" THEN Fatal("ACP client not initialized")
    ELSE IF how = "join_error" THEN Fatal("ACP client call failed")
    ELSE IF how = "client_error" THEN RespondToModel("ACP client error")
    ELSE IF a.mode = "Slice" THEN SliceAlone(a, text)
    ELSE BlockAlone(a, text)

\* An invocation, given by its locals l, that has ended has the result of
\* running alone, on a text that answers its own request on the file.
AsAlone(l) ==
    l.pc = "done" =>
        /\ l.result = ResultAlone(l.args, acp_client, l.outcome, l.content)
        /\ l.outcome = "response" =>
              \E honours_limit \in BOOLEAN :
                  l.content = read_text_file(RequestAlone(l.args), honours_limit)
        /\ l.outcome # "response" => l.content = <<>>

\* C13: with two invocations in progress at once on an unchanged file,
\* interleaved step by step in any order, each one that has ended has the
\* result it has when it runs alone with its arguments and the answer to its
\* fetch; and two that have ended with the same arguments and the same
\* answer have the same result.
C13_Independent ==
    /\ AsAlone(locals)
    /\ AsAlone(other)
    /\ (pc = "done" /\ other.pc = "done" /\ args = other.args
          /\ outcome = other.outcome /\ content = other.content) =>
             result = other.result

\* C13 witness: both invocations have ended in success, a slice and an
\* indentation block that ran its scan, on different texts, after one had
\* halted while both were past handle and neither had ended.
C13_Witness ==
    /\ pc = "done" /\ other.pc = "done"
    /\ result.kind = "Ok" /\ other.result.kind = "Ok"
    /\ args.mode # other.args.mode
    /\ content # other.content
    /\ steps + other.steps >= 2
    /\ overlapped

====
